---- MODULE Spec2Model ----
(***************************************************************************)
(* The CIDR address model of lib-net-utils: IPv4CIDR, IPv6CIDR and the     *)
(* family-erased IPCIDR, with their constructors, setters, text parsing,   *)
(* formatting, equality and ordering.                                      *)
(*                                                                         *)
(* Text is a sequence of one-character strings.  An IPv4Address is a tuple *)
(* of 4 octets, an IPv6Address a tuple of 8 16-bit segments.  The address  *)
(* and integer parsers and renderers of the standard library, which the    *)
(* crate calls through `.parse()` and `write!`, are written out below so   *)
(* that formatting and parsing are two different computations.             *)
(***************************************************************************)
EXTENDS Integers, Sequences, FiniteSets, TLC

\* cidr:  the CIDR object the operations construct and mutate, or None.  An
\*        object is kept with its family: V4(c) is an IPv4CIDR (or the V4
\*        variant of an IPCIDR), V6(c) an IPv6CIDR.
\* other: the second operand of a comparison, or None.
\* text:  the text a parser is given, or a formatter has written.
\* out:   the last operation, its inputs and what it returned.
VARIABLES cidr, other, text, out

vars == <<cidr, other, text, out>>

(***************************************************************************)
(* Bounds of the model.                                                    *)
(***************************************************************************)
\* Addresses of each family that the operations draw their inputs from.
NumAddrs == 2
\* Prefix inputs lie within Margin of 0, of each family's width and of 255.
Margin == 1
\* Text inputs have at most 1 + MaxExtraFields '/'-delimited fields.
MaxExtraFields == 2

(***************************************************************************)
(* Program constants.                                                      *)
(***************************************************************************)
\* The largest value of the u8 prefix field.
U8Max == 255
\* The bit widths of the two families.
V4Width == 32
V6Width == 128

None == [none |-> TRUE]

Families == {"V4", "V6"}

\* W of the family: the bit width of its addresses.
Width(f) == IF f = "V4" THEN V4Width ELSE V6Width

Min(a, b) == IF a < b THEN a ELSE b

\* F(v), with v evaluated once: what `let x = v;` is to the code after it.
Bind(v, F(_)) == CHOOSE r \in {F(x) : x \in {v}} : TRUE

\* The input addresses: 10.0.0.1, 192.168.1.0, 255.255.255.255, 0.0.0.0 and
\* ::1, 2001:db8:0:0:1:0:0:1, ::ffff:10.0.0.1, ::.
V4Addrs == << <<10, 0, 0, 1>>, <<192, 168, 1, 0>>, <<255, 255, 255, 255>>,
              <<0, 0, 0, 0>> >>

V6Addrs == << <<0, 0, 0, 0, 0, 0, 0, 1>>, <<8193, 3512, 0, 0, 1, 0, 0, 1>>,
              <<0, 0, 0, 0, 0, 65535, 2560, 1>>, <<0, 0, 0, 0, 0, 0, 0, 0>> >>

Addrs(f) == LET l == IF f = "V4" THEN V4Addrs ELSE V6Addrs
            IN  {l[i] : i \in 1..Min(NumAddrs, Len(l))}

Near(p, q) == p - q <= Margin /\ q - p <= Margin

U8 == 0..U8Max

(***************************************************************************)
(* Characters and numbers.                                                 *)
(***************************************************************************)
DigitChars == <<"0", "1", "2", "3", "4", "5", "6", "7", "8", "9">>

HexLower == DigitChars \o <<"a", "b", "c", "d", "e", "f">>

HexUpper == DigitChars \o <<"A", "B", "C", "D", "E", "F">>

\* The value of each hexadecimal digit, of either case.
HexValue ==
    [c \in {HexLower[i] : i \in 1..16} \cup {HexUpper[i] : i \in 1..16} |->
        (CHOOSE i \in 1..16 : HexLower[i] = c \/ HexUpper[i] = c) - 1]

\* char::to_digit(radix): the digit's value, or -1 when c is no digit.
ToDigit(c, radix) ==
    IF c \in DOMAIN HexValue /\ HexValue[c] < radix THEN HexValue[c] ELSE -1

\* Display of an unsigned integer: plain decimal, no leading zeros.
RECURSIVE Dec(_)
Dec(n) == IF n < 10 THEN <<DigitChars[n + 1]>>
          ELSE Dec(n \div 10) \o <<DigitChars[(n % 10) + 1]>>

\* LowerHex of a u16 segment: no leading zeros.
RECURSIVE Hex(_)
Hex(n) == IF n < 16 THEN <<HexLower[n + 1]>>
          ELSE Hex(n \div 16) \o <<HexLower[(n % 16) + 1]>>

\* Concatenation of the texts of ts with sep between them.
RECURSIVE Join(_, _)
Join(ts, sep) ==
    IF Len(ts) = 0 THEN <<>>
    ELSE IF Len(ts) = 1 THEN ts[1]
    ELSE ts[1] \o sep \o Join(Tail(ts), sep)

\* str::split(ch): the fields between the occurrences of ch.  The empty text
\* has one field, the empty one.
RECURSIVE SplitFrom(_, _, _, _)
SplitFrom(s, ch, i, cur) ==
    IF i > Len(s) THEN <<cur>>
    ELSE IF s[i] = ch THEN <<cur>> \o SplitFrom(s, ch, i + 1, <<>>)
    ELSE SplitFrom(s, ch, i + 1, Append(cur, s[i]))

Split(s, ch) == SplitFrom(s, ch, 1, <<>>)

\* u8::from_str: an optional '+', then decimal digits folded left to right
\* with checked arithmetic.
RECURSIVE U8Digits(_, _, _)
U8Digits(s, i, acc) ==
    IF i > Len(s) THEN [ok |-> TRUE, value |-> acc]
    ELSE Bind(ToDigit(s[i], 10), LAMBDA d :
         IF d < 0 THEN [ok |-> FALSE, kind |-> "InvalidDigit"]
         ELSE Bind(acc * 10 + d, LAMBDA next :
              IF next > U8Max THEN [ok |-> FALSE, kind |-> "PosOverflow"]
              ELSE U8Digits(s, i + 1, next)))

\* <u8 as FromStr>::from_str
U8FromStr(s) ==
    IF Len(s) = 0 THEN [ok |-> FALSE, kind |-> "Empty"]
    ELSE IF s[1] \in {"+", "-"} /\ Len(s) = 1
         THEN [ok |-> FALSE, kind |-> "InvalidDigit"]
    ELSE IF s[1] = "+" THEN U8Digits(s, 2, 0)
    ELSE U8Digits(s, 1, 0)

(***************************************************************************)
(* The standard library's address parser (core::net::parser), which the    *)
(* crate reaches through IPv4Address / IPv6Address / IPAddress `.parse()`. *)
(* A read starts at position pos of s and yields [ok, pos, value]; a       *)
(* failed read consumes nothing.                                           *)
(***************************************************************************)
Fail == [ok |-> FALSE]

\* The number of consecutive radix-digits of s from position pos.
RECURSIVE DigitRun(_, _, _)
DigitRun(s, pos, radix) ==
    IF pos > Len(s) \/ ToDigit(s[pos], radix) < 0 THEN 0
    ELSE 1 + DigitRun(s, pos + 1, radix)

RECURSIVE DigitsValue(_, _, _, _)
DigitsValue(s, pos, n, radix) ==
    IF n = 0 THEN 0
    ELSE DigitsValue(s, pos, n - 1, radix) * radix + ToDigit(s[pos + n - 1], radix)

\* Parser::read_number: all digits at pos, at most maxDigits of them, the
\* value at most maxValue, a leading zero only where allowed.
ReadNumber(s, pos, radix, maxDigits, allowZeroPrefix, maxValue) ==
    Bind(DigitRun(s, pos, radix), LAMBDA n :
    IF n = 0 \/ n > maxDigits THEN Fail
    ELSE Bind(DigitsValue(s, pos, n, radix), LAMBDA v :
    IF v > maxValue THEN Fail
    ELSE IF ~allowZeroPrefix /\ s[pos] = "0" /\ n > 1 THEN Fail
    ELSE [ok |-> TRUE, pos |-> pos + n, value |-> v]))

\* Parser::read_separator: for index > 0 the separator comes first.
SkipSeparator(s, pos, sep, index) ==
    IF index = 0 THEN [ok |-> TRUE, pos |-> pos]
    ELSE IF pos <= Len(s) /\ s[pos] = sep THEN [ok |-> TRUE, pos |-> pos + 1]
    ELSE Fail

\* Parser::read_ipv4_addr: four decimal octets separated by '.'.
RECURSIVE ReadIPv4Groups(_, _, _, _)
ReadIPv4Groups(s, pos, i, groups) ==
    IF i = 4 THEN [ok |-> TRUE, pos |-> pos, value |-> groups]
    ELSE Bind(SkipSeparator(s, pos, ".", i), LAMBDA sp :
         IF ~sp.ok THEN Fail
         ELSE Bind(ReadNumber(s, sp.pos, 10, 3, FALSE, U8Max), LAMBDA g :
              IF ~g.ok THEN Fail
              ELSE ReadIPv4Groups(s, g.pos, i + 1, Append(groups, g.value))))

ReadIPv4Addr(s, pos) == ReadIPv4Groups(s, pos, 0, <<>>)

\* read_groups of Parser::read_ipv6_addr: up to limit 16-bit groups
\* separated by ':', the last two of which may be an embedded IPv4 address.
\* Yields the groups read, the position, and whether an IPv4 address ended
\* them.
RECURSIVE ReadGroups(_, _, _, _, _)
ReadGroups(s, pos, limit, i, groups) ==
    IF i >= limit THEN [groups |-> groups, pos |-> pos, ipv4 |-> FALSE]
    ELSE
    Bind(SkipSeparator(s, pos, ":", i), LAMBDA sp :
    Bind(IF i < limit - 1 /\ sp.ok THEN ReadIPv4Addr(s, sp.pos) ELSE Fail, LAMBDA v4 :
        IF v4.ok
        THEN [groups |-> groups \o <<v4.value[1] * 256 + v4.value[2],
                                     v4.value[3] * 256 + v4.value[4]>>,
              pos |-> v4.pos, ipv4 |-> TRUE]
        ELSE Bind(IF sp.ok THEN ReadNumber(s, sp.pos, 16, 4, TRUE, 65535) ELSE Fail,
                  LAMBDA g :
                 IF ~g.ok THEN [groups |-> groups, pos |-> pos, ipv4 |-> FALSE]
                 ELSE ReadGroups(s, g.pos, limit, i + 1, Append(groups, g.value)))))

Zeros(n) == [i \in 1..n |-> 0]

\* Parser::read_ipv6_addr: eight groups, or a head and a tail around one
\* "::" that stands for at least one zero group.
ReadIPv6Addr(s, pos) ==
    Bind(ReadGroups(s, pos, 8, 0, <<>>), LAMBDA head :
    IF Len(head.groups) = 8
    THEN [ok |-> TRUE, pos |-> head.pos, value |-> head.groups]
    ELSE IF head.ipv4 THEN Fail
    ELSE IF ~(head.pos + 1 <= Len(s) /\ s[head.pos] = ":" /\ s[head.pos + 1] = ":")
         THEN Fail
    ELSE Bind(ReadGroups(s, head.pos + 2, 8 - (Len(head.groups) + 1), 0, <<>>),
              LAMBDA tail :
              [ok |-> TRUE, pos |-> tail.pos,
               value |-> head.groups
                         \o Zeros(8 - Len(head.groups) - Len(tail.groups))
                         \o tail.groups]))

\* Parser::parse_with: the read must consume the whole text.
Whole(s, read) ==
    Bind(read, LAMBDA r : IF r.ok /\ r.pos = Len(s) + 1
                          THEN [ok |-> TRUE, value |-> r.value]
                          ELSE Fail)

\* <IPv4Address as FromStr>::from_str
IPv4AddressFromStr(s) ==
    IF Len(s) > 15 THEN Fail ELSE Whole(s, ReadIPv4Addr(s, 1))

\* <IPv6Address as FromStr>::from_str
IPv6AddressFromStr(s) == Whole(s, ReadIPv6Addr(s, 1))

\* <IPAddress as FromStr>::from_str: an IPv4 address, or else an IPv6 one.
IPAddressFromStr(s) ==
    Bind(ReadIPv4Addr(s, 1), LAMBDA r4 :
    Bind(IF r4.ok THEN Whole(s, r4) ELSE Whole(s, ReadIPv6Addr(s, 1)), LAMBDA w :
        IF ~w.ok THEN Fail
        ELSE [ok |-> TRUE, family |-> IF r4.ok THEN "V4" ELSE "V6",
              value |-> w.value]))

\* The address parser of family f.
AddressFromStr(f, s) ==
    IF f = "V4" THEN IPv4AddressFromStr(s) ELSE IPv6AddressFromStr(s)

(***************************************************************************)
(* The standard library's address renderers (Display).                     *)
(***************************************************************************)
\* <IPv4Address as Display>::fmt: the four octets in decimal.
IPv4AddressFmt(a) == Join([i \in 1..4 |-> Dec(a[i])], <<".">>)

\* The longest run of zero segments, the first of them when several are as
\* long: [start, len], positions counted from 1.
RECURSIVE LongestZeros(_, _, _, _)
LongestZeros(a, i, current, longest) ==
    IF i > Len(a) THEN longest
    ELSE IF a[i] = 0
         THEN LET cur == [start |-> IF current.len = 0 THEN i ELSE current.start,
                          len |-> current.len + 1]
              IN  LongestZeros(a, i + 1, cur,
                               IF cur.len > longest.len THEN cur ELSE longest)
         ELSE LongestZeros(a, i + 1, [start |-> 0, len |-> 0], longest)

FmtSubslice(seg) == Join([i \in 1..Len(seg) |-> Hex(seg[i])], <<":">>)

\* <IPv6Address as Display>::fmt: "::ffff:a.b.c.d" for an IPv4-mapped
\* address; otherwise lower-case hex segments with the longest run of two or
\* more zero segments written "::".
IPv6AddressFmt(a) ==
    IF SubSeq(a, 1, 5) = Zeros(5) /\ a[6] = 65535
    THEN <<":", ":", "f", "f", "f", "f", ":">>
         \o IPv4AddressFmt(<<a[7] \div 256, a[7] % 256, a[8] \div 256, a[8] % 256>>)
    ELSE LET z == LongestZeros(a, 1, [start |-> 0, len |-> 0], [start |-> 0, len |-> 0])
         IN  IF z.len > 1
             THEN FmtSubslice(SubSeq(a, 1, z.start - 1)) \o <<":", ":">>
                  \o FmtSubslice(SubSeq(a, z.start + z.len, 8))
             ELSE FmtSubslice(a)

AddressFmt(f, a) == IF f = "V4" THEN IPv4AddressFmt(a) ELSE IPv6AddressFmt(a)

\* Ord of an address: its octets or segments compared in order.
RECURSIVE SeqCmp(_, _)
SeqCmp(a, b) ==
    IF Len(a) = 0 THEN "Equal"
    ELSE IF a[1] < b[1] THEN "Less"
    ELSE IF a[1] > b[1] THEN "Greater"
    ELSE SeqCmp(Tail(a), Tail(b))

AddressCmp(a, b) == SeqCmp(a, b)

(***************************************************************************)
(* IPv4CIDR and IPv6CIDR (ip/v4/cidr.rs, ip/v6/cidr.rs).  The two files    *)
(* differ in the address type and the prefix literal only; f names the     *)
(* family.  A CIDR value is [address, prefix].                             *)
(***************************************************************************)
Ok(v) == [ok |-> TRUE, value |-> v]

\* InvalidPrefixError { prefix }
InvalidPrefixError(prefix) == [ok |-> FALSE, prefix |-> prefix]

\* The variants of InvalidCIDRError.
MissingAddress == [ok |-> FALSE, err |-> "MissingAddress"]

MissingPrefix == [ok |-> FALSE, err |-> "MissingPrefix"]

AddressParseError == [ok |-> FALSE, err |-> "AddressParseError"]

PrefixParseError(kind) == [ok |-> FALSE, err |-> "PrefixParseError", kind |-> kind]

InvalidPrefix(e) == [ok |-> FALSE, err |-> "InvalidPrefix", prefix |-> e.prefix]

ExtraContent == [ok |-> FALSE, err |-> "ExtraContent"]

\* new_unchecked: the value as given.
NewUnchecked(address, prefix) == [address |-> address, prefix |-> prefix]

\* The assertion of new: assert!(prefix <= 32), assert!(prefix <= 128).
NewAssertion(f, prefix) == IF f = "V4" THEN prefix <= 32 ELSE prefix <= 128

\* try_new rejecting the full-width prefix: `>=` written for `>`.
TryNewOffByOne(f, address, prefix) ==
    IF (IF f = "V4" THEN prefix >= 32 ELSE prefix >= 128)
    THEN InvalidPrefixError(prefix)
    ELSE Ok(NewUnchecked(address, prefix))

\* try_new
TryNew(f, address, prefix) ==
    IF (IF f = "V4" THEN prefix > 32 ELSE prefix > 128)
    THEN InvalidPrefixError(prefix)
    ELSE Ok(NewUnchecked(address, prefix))

\* set_prefix asserting the IPv6 bound in both files.
SetPrefixAssertionWide(f, prefix) == prefix <= 128

\* The assertion of set_prefix.
SetPrefixAssertion(f, prefix) == IF f = "V4" THEN prefix <= 32 ELSE prefix <= 128

\* The prefix that From<address> passes to new.
FromAddressPrefix(f) == IF f = "V4" THEN 32 ELSE 128

\* Iterator::next on the fields of a split: the i-th field, if there is one.
NextPart(parts, i) == IF i <= Len(parts) THEN Ok(parts[i]) ELSE [ok |-> FALSE]

\* str::trim, of spaces.
RECURSIVE Trim(_)
Trim(s) == IF Len(s) > 0 /\ s[1] = " " THEN Trim(Tail(s))
           ELSE IF Len(s) > 0 /\ s[Len(s)] = " " THEN Trim(SubSeq(s, 1, Len(s) - 1))
           ELSE s

\* The prefix field trimmed before it is parsed: `.trim().parse()`.
ParsePrefixTrimmed(field) ==
    Bind(U8FromStr(Trim(field)), LAMBDA r :
        IF r.ok THEN r ELSE PrefixParseError(r.kind))

\* The prefix field parsed as u8: `.parse().map_err(PrefixParseError)`.
ParsePrefix(field) ==
    Bind(U8FromStr(field), LAMBDA r :
        IF r.ok THEN r ELSE PrefixParseError(r.kind))

\* The check for a third field left out.
HasExtraNever(parts) == FALSE

\* parts.next().is_some() after the prefix field.
HasExtra(parts) == NextPart(parts, 3).ok

\* <IPv4CIDR as FromStr>::from_str, <IPv6CIDR as FromStr>::from_str
FromStr(f, s) ==
    Bind(Split(s, "/"), LAMBDA parts :
    Bind(NextPart(parts, 1), LAMBDA p1 :
        IF ~p1.ok THEN MissingAddress
        ELSE Bind(AddressFromStr(f, p1.value), LAMBDA address :
        IF ~address.ok THEN AddressParseError
        ELSE Bind(NextPart(parts, 2), LAMBDA p2 :
        IF ~p2.ok THEN MissingPrefix
        ELSE Bind(ParsePrefix(p2.value), LAMBDA prefix :
        IF ~prefix.ok THEN prefix
        ELSE IF HasExtra(parts) THEN ExtraContent
        ELSE Bind(TryNew(f, address.value, prefix.value), LAMBDA r :
        IF r.ok THEN r ELSE InvalidPrefix(r)))))))

\* fmt writing the prefix in hexadecimal: "{}/{:x}" for "{}/{}".
FmtHexPrefix(f, c) == AddressFmt(f, c.address) \o <<"/">> \o Hex(c.prefix)

\* <IPv4CIDR as Display>::fmt, <IPv6CIDR as Display>::fmt
Fmt(f, c) == AddressFmt(f, c.address) \o <<"/">> \o Dec(c.prefix)

\* The derived PartialEq of IPv4CIDR / IPv6CIDR: every field.
Eq(a, b) == a.address = b.address /\ a.prefix = b.prefix

\* partial_cmp as #[derive(PartialOrd)] would write it: the address, then
\* the prefix.
PartialCmpDerived(a, b) ==
    IF AddressCmp(a.address, b.address) # "Equal"
    THEN AddressCmp(a.address, b.address)
    ELSE IF a.prefix < b.prefix THEN "Less"
    ELSE IF a.prefix > b.prefix THEN "Greater"
    ELSE "Equal"

\* impl PartialOrd for IPv4CIDR / IPv6CIDR
PartialCmp(a, b) == AddressCmp(a.address, b.address)

\* Ord::cmp of u8.
U8Cmp(p, q) == IF p < q THEN "Less" ELSE IF p > q THEN "Greater" ELSE "Equal"

\* The derived Ord of IPv4CIDR / IPv6CIDR: the fields in declaration order,
\* the address and then the prefix.
Cmp(a, b) ==
    IF AddressCmp(a.address, b.address) # "Equal"
    THEN AddressCmp(a.address, b.address)
    ELSE U8Cmp(a.prefix, b.prefix)

(***************************************************************************)
(* IPCIDR (ip/cidr.rs): [tag, cidr], tag the family of the CIDR it holds.  *)
(***************************************************************************)
V4(c) == [tag |-> "V4", cidr |-> c]

V6(c) == [tag |-> "V6", cidr |-> c]

\* A CIDR object of family f.
Obj(f, c) == IF f = "V4" THEN V4(c) ELSE V6(c)

\* IPCIDR's from_str checking every prefix against the IPv6 bound.
IPCIDRFromStrOneBound(s) ==
    Bind(Split(s, "/"), LAMBDA parts :
    Bind(NextPart(parts, 1), LAMBDA p1 :
        IF ~p1.ok THEN MissingAddress
        ELSE Bind(IPAddressFromStr(p1.value), LAMBDA address :
        IF ~address.ok THEN AddressParseError
        ELSE Bind(NextPart(parts, 2), LAMBDA p2 :
        IF ~p2.ok THEN MissingPrefix
        ELSE Bind(ParsePrefix(p2.value), LAMBDA prefix :
        IF ~prefix.ok THEN prefix
        ELSE IF HasExtra(parts) THEN ExtraContent
        ELSE Bind(TryNew("V6", address.value, prefix.value), LAMBDA r :
             IF r.ok THEN Ok(Obj(address.family, r.value))
             ELSE InvalidPrefix(r)))))))

\* <IPCIDR as FromStr>::from_str
IPCIDRFromStr(s) ==
    Bind(Split(s, "/"), LAMBDA parts :
    Bind(NextPart(parts, 1), LAMBDA p1 :
        IF ~p1.ok THEN MissingAddress
        ELSE Bind(IPAddressFromStr(p1.value), LAMBDA address :
        IF ~address.ok THEN AddressParseError
        ELSE Bind(NextPart(parts, 2), LAMBDA p2 :
        IF ~p2.ok THEN MissingPrefix
        ELSE Bind(ParsePrefix(p2.value), LAMBDA prefix :
        IF ~prefix.ok THEN prefix
        ELSE IF HasExtra(parts) THEN ExtraContent
        ELSE IF address.family = "V4"
             THEN Bind(TryNew("V4", address.value, prefix.value), LAMBDA r :
                  IF r.ok THEN Ok(V4(r.value)) ELSE InvalidPrefix(r))
             ELSE Bind(TryNew("V6", address.value, prefix.value), LAMBDA r :
                  IF r.ok THEN Ok(V6(r.value)) ELSE InvalidPrefix(r)))))))

\* <IPCIDR as Display>::fmt
IPCIDRFmt(x) == Fmt(x.tag, x.cidr)

\* The derived PartialEq of IPCIDR: the same variant and equal contents.
IPCIDREq(x, y) == x.tag = y.tag /\ Eq(x.cidr, y.cidr)

\* The derived PartialOrd of IPCIDR: the variants in declaration order
\* (V4, V6), then the contents by their partial_cmp.
IPCIDRPartialCmp(x, y) ==
    IF x.tag = y.tag THEN PartialCmp(x.cidr, y.cidr)
    ELSE IF x.tag = "V4" THEN "Less" ELSE "Greater"

\* The derived Ord of IPCIDR: the variants in declaration order (V4, V6),
\* then the contents by their cmp.
IPCIDRCmp(x, y) ==
    IF x.tag = y.tag THEN Cmp(x.cidr, y.cidr)
    ELSE IF x.tag = "V4" THEN "Less" ELSE "Greater"

\* impl PartialEq<IPv4CIDR> for IPCIDR
IPCIDREqV4(x, c) == IF x.tag = "V4" THEN Eq(x.cidr, c) ELSE FALSE

\* impl PartialEq<IPv6CIDR> for IPCIDR
IPCIDREqV6(x, c) == IF x.tag = "V4" THEN FALSE ELSE Eq(x.cidr, c)

\* impl PartialOrd<IPv4CIDR> for IPCIDR
IPCIDRPartialCmpV4(x, c) ==
    IF x.tag = "V4" THEN PartialCmp(x.cidr, c) ELSE "Greater"

\* impl PartialOrd<IPv6CIDR> for IPCIDR
IPCIDRPartialCmpV6(x, c) ==
    IF x.tag = "V4" THEN "Less" ELSE PartialCmp(x.cidr, c)

\* impl PartialEq<IPCIDR> for IPv4CIDR
V4EqIPCIDR(c, x) == IF x.tag = "V4" THEN Eq(c, x.cidr) ELSE FALSE

\* IPv6CIDR == IPCIDR decided by the ordering.
V6EqIPCIDRByOrder(c, x) ==
    IF x.tag = "V4" THEN FALSE ELSE PartialCmp(c, x.cidr) = "Equal"

\* impl PartialEq<IPCIDR> for IPv6CIDR
V6EqIPCIDR(c, x) == IF x.tag = "V4" THEN FALSE ELSE Eq(c, x.cidr)

\* impl PartialOrd<IPCIDR> for IPv4CIDR
V4PartialCmpIPCIDR(c, x) ==
    IF x.tag = "V4" THEN PartialCmp(c, x.cidr) ELSE "Less"

\* IPv6CIDR's partial_cmp with the IPv4 file's arm for the other family.
V6PartialCmpIPCIDRLess(c, x) ==
    IF x.tag = "V4" THEN "Less" ELSE PartialCmp(c, x.cidr)

\* impl PartialOrd<IPCIDR> for IPv6CIDR
V6PartialCmpIPCIDR(c, x) ==
    IF x.tag = "V4" THEN "Greater" ELSE PartialCmp(c, x.cidr)

(***************************************************************************)
(* The life of a CIDR object: the safe constructors and the setters.       *)
(***************************************************************************)
\* The prefix inputs: the u8 values near 0, near each width and near 255.
Prefixes == {p \in U8 : Near(p, 0) \/ Near(p, V4Width) \/ Near(p, V6Width)
                        \/ Near(p, U8Max)}

Call(op, f, prefix, status) ==
    [op |-> op, family |-> f, prefix |-> prefix, status |-> status]

\* The texts an object is parsed from during its life: "address/prefix" for
\* an address of either family and any prefix input.
LifeTexts ==
    UNION {{Fmt(g, NewUnchecked(a, p)) : a \in Addrs(g), p \in Prefixes} :
           g \in Families}

\* from_str of each family on each of these texts.
LifeParse == [f \in Families |-> [s \in LifeTexts |-> FromStr(f, s)]]

Init ==
    /\ cidr = None
    /\ other = None
    /\ text = <<>>
    /\ out = [op |-> "none"]

\* IPv4CIDR::new / IPv6CIDR::new: the assertion, then new_unchecked.
New(f, address, prefix) ==
    /\ IF NewAssertion(f, prefix)
       THEN /\ cidr' = Obj(f, NewUnchecked(address, prefix))
            /\ out' = Call("new", f, prefix, "ok")
       ELSE /\ cidr' = cidr
            /\ out' = Call("new", f, prefix, "panic")
    /\ UNCHANGED <<other, text>>

\* let c = IPv4CIDR::try_new(address, prefix)?
TryNewBind(op, f, address, prefix) ==
    LET r == TryNew(f, address, prefix) IN
    /\ IF r.ok
       THEN /\ cidr' = Obj(f, r.value)
            /\ out' = Call(op, f, prefix, "ok")
       ELSE /\ cidr' = cidr
            /\ out' = Call(op, f, r.prefix, "err")
    /\ UNCHANGED <<other, text>>

\* <IPv4CIDR as From<IPv4Address>>::from: new with the family's full prefix.
FromAddress(f, address) ==
    /\ IF NewAssertion(f, FromAddressPrefix(f))
       THEN /\ cidr' = Obj(f, NewUnchecked(address, FromAddressPrefix(f)))
            /\ out' = Call("from", f, FromAddressPrefix(f), "ok")
       ELSE /\ cidr' = cidr
            /\ out' = Call("from", f, FromAddressPrefix(f), "panic")
    /\ UNCHANGED <<other, text>>

\* <IPv4CIDR as TryFrom<(T, u8)>>::try_from: try_new.
TryFrom(f, address, prefix) == TryNewBind("try_from", f, address, prefix)

\* let c: IPv4CIDR = s.parse()?, s the text "address/prefix" of any family
\* and any u8 prefix.
FromStrBind(f, s, prefix) ==
    LET r == LifeParse[f][s] IN
    /\ IF r.ok
       THEN /\ cidr' = Obj(f, r.value)
            /\ out' = Call("from_str", f, prefix, "ok")
       ELSE /\ cidr' = cidr
            /\ out' = Call("from_str", f, prefix, r.err)
    /\ UNCHANGED <<other, text>>

\* set_address
SetAddress(f, address) ==
    /\ cidr # None
    /\ cidr.tag = f
    /\ cidr' = [cidr EXCEPT !.cidr.address = address]
    /\ out' = Call("set_address", cidr.tag, cidr.cidr.prefix, "ok")
    /\ UNCHANGED <<other, text>>

\* set_prefix: the assertion, then the assignment.
SetPrefix(prefix) ==
    /\ cidr # None
    /\ IF SetPrefixAssertion(cidr.tag, prefix)
       THEN /\ cidr' = [cidr EXCEPT !.cidr.prefix = prefix]
            /\ out' = Call("set_prefix", cidr.tag, prefix, "ok")
       ELSE /\ cidr' = cidr
            /\ out' = Call("set_prefix", cidr.tag, prefix, "panic")
    /\ UNCHANGED <<other, text>>

Next ==
    \/ \E f \in Families : \E a \in Addrs(f), p \in Prefixes : New(f, a, p)
    \/ \E f \in Families : \E a \in Addrs(f), p \in Prefixes :
          TryNewBind("try_new", f, a, p)
    \/ \E f \in Families : \E a \in Addrs(f) : FromAddress(f, a)
    \/ \E f \in Families : \E a \in Addrs(f), p \in Prefixes : TryFrom(f, a, p)
    \/ \E f \in Families, g \in Families : \E a \in Addrs(g), p \in Prefixes :
          FromStrBind(f, Fmt(g, NewUnchecked(a, p)), p)
    \/ \E f \in Families : \E a \in Addrs(f) : SetAddress(f, a)
    \/ \E p \in Prefixes : SetPrefix(p)

Spec == Init /\ [][Next]_vars

(***************************************************************************)
(* try_new as a function of its arguments, over every u8 prefix.           *)
(***************************************************************************)
\* address()
Address(c) == c.address

\* prefix()
Prefix(c) == c.prefix

TryNewCall(f, address, prefix) ==
    /\ out' = [op |-> "try_new", family |-> f, address |-> address,
               prefix |-> prefix, result |-> TryNew(f, address, prefix)]
    /\ UNCHANGED <<cidr, other, text>>

NextTryNew == \E f \in Families : \E a \in Addrs(f), p \in U8 : TryNewCall(f, a, p)

SpecTryNew == Init /\ [][NextTryNew]_vars

(***************************************************************************)
(* Parsing and formatting.  A behaviour starts from a text to parse, or    *)
(* from a valid CIDR object to format and parse back.                      *)
(***************************************************************************)
\* First fields: nothing, the text of each input address, and variations
\* of it: a leading zero or space (IPv4), every segment written out and a
\* trailing ':' (IPv6), and a text that is no address.
FirstFields ==
    {<<>>, <<"x">>}
    \cup UNION {{IPv4AddressFmt(a), <<"0">> \o IPv4AddressFmt(a),
                 <<" ">> \o IPv4AddressFmt(a)} : a \in Addrs("V4")}
    \cup UNION {{IPv6AddressFmt(a), FmtSubslice(a), FmtSubslice(a) \o <<":">>} :
                a \in Addrs("V6")}

\* Second fields: each prefix input in decimal; the prefixes near the IPv4
\* width with a sign, a leading zero, a space or a letter added; numbers
\* past u8; and fields with no digit.
SecondFields ==
    {Dec(p) : p \in Prefixes}
    \cup UNION {{<<"+">> \o Dec(p), <<"-">> \o Dec(p), <<"0">> \o Dec(p),
                 <<" ">> \o Dec(p), Dec(p) \o <<" ">>, Dec(p) \o <<"x">>,
                 <<"+", "+">> \o Dec(p)} :
                p \in {q \in Prefixes : Near(q, V4Width)}}
    \cup {Dec(U8Max + 1 + k) : k \in 0..Margin}
    \cup {<<>>, <<"+">>, <<"-">>, <<"x">>}

\* Further fields: an empty one, a number.
ExtraFields == {<<>>, Dec(V4Width)}

TextInputs ==
    FirstFields
    \cup {Join(<<a, b>> \o e, <<"/">>) :
            a \in FirstFields, b \in SecondFields,
            e \in UNION {[1..n -> ExtraFields] : n \in 0..MaxExtraFields}}

\* Every valid CIDR object over the input addresses.
ValidObjs ==
    UNION {{Obj(f, NewUnchecked(a, p)) : a \in Addrs(f), p \in 0..Width(f)} :
           f \in Families}

InitParse ==
    /\ other = None
    /\ out = [op |-> "none"]
    /\ \/ cidr = None /\ text \in TextInputs
       \/ cidr \in ValidObjs /\ text = <<>>

\* c.to_string() of an IPv4CIDR / IPv6CIDR
Display ==
    /\ cidr # None
    /\ text' = Fmt(cidr.tag, cidr.cidr)
    /\ out' = [op |-> "fmt"]
    /\ UNCHANGED <<cidr, other>>

\* IPCIDR::from(c).to_string()
IPCIDRDisplay ==
    /\ cidr # None
    /\ text' = IPCIDRFmt(cidr)
    /\ out' = [op |-> "IPCIDR::fmt"]
    /\ UNCHANGED <<cidr, other>>

\* text.parse::<IPv4CIDR>(), text.parse::<IPv6CIDR>()
Parse(f) ==
    /\ out' = [op |-> "from_str", family |-> f, input |-> text,
               result |-> FromStr(f, text)]
    /\ UNCHANGED <<cidr, other, text>>

\* text.parse::<IPCIDR>()
IPCIDRParse ==
    /\ out' = [op |-> "IPCIDR::from_str", input |-> text,
               result |-> IPCIDRFromStr(text)]
    /\ UNCHANGED <<cidr, other, text>>

NextParse ==
    \/ Display
    \/ IPCIDRDisplay
    \/ \E f \in Families : Parse(f)
    \/ IPCIDRParse

SpecParse == InitParse /\ [][NextParse]_vars

(***************************************************************************)
(* Equality and ordering.  A behaviour starts from two valid CIDR objects; *)
(* each comparison reads them as the types of its signature.               *)
(***************************************************************************)
CmpObjs ==
    UNION {{Obj(f, NewUnchecked(a, p)) :
              a \in Addrs(f), p \in {q \in Prefixes : q <= Width(f)}} :
           f \in Families}

InitCmp ==
    /\ cidr \in CmpObjs
    /\ other \in CmpObjs
    /\ text = <<>>
    /\ out = [op |-> "none"]

Compared(op, result) ==
    /\ out' = [op |-> op, result |-> result]
    /\ UNCHANGED <<cidr, other, text>>

\* IPv4CIDR == IPv4CIDR, IPv6CIDR == IPv6CIDR
EqOp ==
    /\ cidr.tag = other.tag
    /\ Compared("eq", Eq(cidr.cidr, other.cidr))

\* IPv4CIDR.partial_cmp(IPv4CIDR), IPv6CIDR.partial_cmp(IPv6CIDR)
PartialCmpOp ==
    /\ cidr.tag = other.tag
    /\ Compared("partial_cmp", PartialCmp(cidr.cidr, other.cidr))

\* IPv4CIDR.cmp(IPv4CIDR), IPv6CIDR.cmp(IPv6CIDR)
CmpOp ==
    /\ cidr.tag = other.tag
    /\ Compared("cmp", Cmp(cidr.cidr, other.cidr))

\* IPCIDR.cmp(IPCIDR)
IPCIDRCmpOp == Compared("IPCIDR.cmp(IPCIDR)", IPCIDRCmp(cidr, other))

\* IPCIDR == IPCIDR
IPCIDREqOp == Compared("IPCIDR==IPCIDR", IPCIDREq(cidr, other))

\* IPCIDR.partial_cmp(IPCIDR)
IPCIDRPartialCmpOp ==
    Compared("IPCIDR.partial_cmp(IPCIDR)", IPCIDRPartialCmp(cidr, other))

\* IPCIDR == IPv4CIDR
IPCIDREqV4Op ==
    /\ other.tag = "V4"
    /\ Compared("IPCIDR==IPv4CIDR", IPCIDREqV4(cidr, other.cidr))

\* IPCIDR == IPv6CIDR
IPCIDREqV6Op ==
    /\ other.tag = "V6"
    /\ Compared("IPCIDR==IPv6CIDR", IPCIDREqV6(cidr, other.cidr))

\* IPv4CIDR == IPCIDR
V4EqIPCIDROp ==
    /\ cidr.tag = "V4"
    /\ Compared("IPv4CIDR==IPCIDR", V4EqIPCIDR(cidr.cidr, other))

\* IPv6CIDR == IPCIDR
V6EqIPCIDROp ==
    /\ cidr.tag = "V6"
    /\ Compared("IPv6CIDR==IPCIDR", V6EqIPCIDR(cidr.cidr, other))

\* IPCIDR.partial_cmp(IPv4CIDR)
IPCIDRPartialCmpV4Op ==
    /\ other.tag = "V4"
    /\ Compared("IPCIDR.partial_cmp(IPv4CIDR)", IPCIDRPartialCmpV4(cidr, other.cidr))

\* IPCIDR.partial_cmp(IPv6CIDR)
IPCIDRPartialCmpV6Op ==
    /\ other.tag = "V6"
    /\ Compared("IPCIDR.partial_cmp(IPv6CIDR)", IPCIDRPartialCmpV6(cidr, other.cidr))

\* IPv4CIDR.partial_cmp(IPCIDR)
V4PartialCmpIPCIDROp ==
    /\ cidr.tag = "V4"
    /\ Compared("IPv4CIDR.partial_cmp(IPCIDR)", V4PartialCmpIPCIDR(cidr.cidr, other))

\* IPv6CIDR.partial_cmp(IPCIDR)
V6PartialCmpIPCIDROp ==
    /\ cidr.tag = "V6"
    /\ Compared("IPv6CIDR.partial_cmp(IPCIDR)", V6PartialCmpIPCIDR(cidr.cidr, other))

NextCmp ==
    \/ EqOp
    \/ PartialCmpOp
    \/ IPCIDREqOp
    \/ IPCIDRPartialCmpOp
    \/ IPCIDREqV4Op
    \/ IPCIDREqV6Op
    \/ V4EqIPCIDROp
    \/ V6EqIPCIDROp
    \/ IPCIDRPartialCmpV4Op
    \/ IPCIDRPartialCmpV6Op
    \/ V4PartialCmpIPCIDROp
    \/ V6PartialCmpIPCIDROp
    \/ CmpOp
    \/ IPCIDRCmpOp

SpecCmp == InitCmp /\ [][NextCmp]_vars

(***************************************************************************)
(* The claims.                                                             *)
(***************************************************************************)

\* C1: through every sequence of safe constructions (new, try_new, From,
\* TryFrom, from_str) and set_address / set_prefix calls, the CIDR object
\* that exists has prefix <= W of its family; new or set_prefix with a
\* prefix > W aborts by assertion, and no call that fails or aborts leaves a
\* value with prefix > W behind.
PrefixBound ==
    /\ cidr # None => Prefix(cidr.cidr) <= Width(cidr.tag)
    /\ (out.op \in {"new", "set_prefix"} /\ out.prefix > Width(out.family))
          => out.status = "panic"
    /\ (out.op \in {"new", "set_prefix", "from", "try_new", "try_from"}
          /\ out.status = "ok")
          => /\ out.prefix <= Width(out.family)
             /\ cidr = Obj(out.family, NewUnchecked(Address(cidr.cidr), out.prefix))

\* An IPv4CIDR that a set_prefix(33) has aborted on.
PrefixBoundWitness ==
    /\ out.op = "set_prefix"
    /\ out.status = "panic"
    /\ out.family = "V4"
    /\ out.prefix = V4Width + 1
    /\ cidr # None
    /\ Prefix(cidr.cidr) = V4Width

\* C2: for each family and every u8 prefix p, try_new(a, p) is Ok exactly
\* when p <= W, the Ok value has address() = a and prefix() = p, and the
\* error carries p.
TryNewBound ==
    out.op = "try_new" =>
        /\ out.result.ok <=> out.prefix <= Width(out.family)
        /\ out.result.ok => /\ Address(out.result.value) = out.address
                            /\ Prefix(out.result.value) = out.prefix
        /\ ~out.result.ok => out.result = InvalidPrefixError(out.prefix)

\* try_new with p = W has succeeded.
TryNewBoundWitness ==
    /\ out.op = "try_new"
    /\ out.family = "V6"
    /\ out.prefix = V6Width
    /\ out.result.ok
    /\ Prefix(out.result.value) = V6Width

\* C3: the text that formatting a valid CIDR object c has written
\* ("address/prefix", the prefix in plain decimal), parsed by from_str of the
\* same family, gives Ok(c') with c' == c.
RoundTrip ==
    (cidr # None /\ out.op = "from_str" /\ out.family = cidr.tag
        /\ out.input # <<>>)
      => /\ out.result.ok
         /\ Eq(out.result.value, cidr.cidr)
         /\ out.input = AddressFmt(cidr.tag, Address(cidr.cidr)) \o <<"/">>
                        \o Dec(Prefix(cidr.cidr))

\* The IPv6CIDR 2001:db8::1:0:0:1/128, formatted and parsed back.
RoundTripWitness ==
    /\ cidr = V6(NewUnchecked(V6Addrs[2], V6Width))
    /\ out.op = "from_str"
    /\ out.family = "V6"
    /\ Len(out.input) > 0
    /\ out.result = Ok(cidr.cidr)

\* What the claims about texts read off a text: its number of '/', and the
\* text before the first '/' and between the first and the second.
Slashes(s) == {i \in 1..Len(s) : s[i] = "/"}

SlashAt(s, k) ==
    IF Cardinality(Slashes(s)) < k THEN Len(s) + 1
    ELSE CHOOSE i \in Slashes(s) :
            Cardinality({j \in Slashes(s) : j < i}) = k - 1

FirstField(s) == SubSeq(s, 1, SlashAt(s, 1) - 1)

SecondField(s) == SubSeq(s, SlashAt(s, 1) + 1, SlashAt(s, 2) - 1)

Parsed == out.op \in {"from_str", "IPCIDR::from_str"}

\* The first field is an address to the parser that was called.
AddressAccepted ==
    IF out.op = "from_str"
    THEN AddressFromStr(out.family, FirstField(out.input)).ok
    ELSE IPAddressFromStr(FirstField(out.input)).ok

Failed(err) == ~out.result.ok /\ out.result.err = err

\* C4: each of the three parsers, given the empty text, returns
\* MissingAddress.
EmptyTextMissingAddress ==
    (Parsed /\ out.input = <<>>) => Failed("MissingAddress")

\* C5: with a valid address as first field, a text with no '/' gives
\* MissingPrefix, a text with an empty second field gives PrefixParseError,
\* and a text with a u8 second field and any further field gives
\* ExtraContent; every text that is accepted has exactly one '/'.
ExactlyOneSlash ==
    Parsed =>
        /\ out.result.ok => Cardinality(Slashes(out.input)) = 1
        /\ AddressAccepted =>
            /\ Cardinality(Slashes(out.input)) = 0 => Failed("MissingPrefix")
            /\ (Cardinality(Slashes(out.input)) >= 1
                  /\ SecondField(out.input) = <<>>)
                 => Failed("PrefixParseError")
            /\ (Cardinality(Slashes(out.input)) >= 2
                  /\ U8FromStr(SecondField(out.input)).ok)
                 => Failed("ExtraContent")

\* IPCIDR's parser has refused "10.0.0.1/32/".
ExactlyOneSlashWitness ==
    /\ out.op = "IPCIDR::from_str"
    /\ out.input = IPv4AddressFmt(V4Addrs[1]) \o <<"/">> \o Dec(V4Width) \o <<"/">>
    /\ Failed("ExtraContent")

\* The digits of a prefix field and their decimal value.
IsDigits(s) == Len(s) >= 1 /\ \A i \in 1..Len(s) : s[i] \in {DigitChars[d] : d \in 1..10}

RECURSIVE Pow10(_)
Pow10(n) == IF n = 0 THEN 1 ELSE 10 * Pow10(n - 1)

RECURSIVE DecimalValue(_)
DecimalValue(s) ==
    IF Len(s) = 0 THEN 0
    ELSE ((CHOOSE d \in 0..9 : DigitChars[d + 1] = s[1]) * Pow10(Len(s) - 1))
         + DecimalValue(Tail(s))

\* The prefix a parse reports: in its value, or in its InvalidPrefix error.
ReportedPrefix ==
    IF out.result.ok
    THEN Prefix(IF out.op = "from_str" THEN out.result.value
                ELSE out.result.value.cidr)
    ELSE out.result.prefix

\* C6, as claimed: the prefix field passes the integer parse only when it is
\* 1*DIGIT of value at most 255; a leading '+', a sign, a space or any
\* other character gives PrefixParseError.
PrefixFieldDigitsOnly ==
    (Parsed /\ AddressAccepted /\ Cardinality(Slashes(out.input)) >= 1) =>
        (~Failed("PrefixParseError")
            <=> (/\ IsDigits(SecondField(out.input))
                 /\ DecimalValue(SecondField(out.input)) <= U8Max))

\* C6, amended: the prefix field passes the integer parse exactly when it is
\* one optional '+' followed by 1*DIGIT of value at most 255 (leading zeros
\* allowed); '-', a space, any other character, no digit at all or a value
\* above 255 gives PrefixParseError.  The prefix then reported is the
\* decimal value of the digits ("024" and "+24" are 24).
PrefixFieldGrammar ==
    (Parsed /\ AddressAccepted /\ Cardinality(Slashes(out.input)) >= 1) =>
        LET field  == SecondField(out.input)
            digits == IF Len(field) >= 1 /\ field[1] = "+" THEN Tail(field)
                      ELSE field
        IN  /\ ~Failed("PrefixParseError")
                 <=> (IsDigits(digits) /\ DecimalValue(digits) <= U8Max)
            /\ (~Failed("PrefixParseError") /\ ~Failed("ExtraContent"))
                 => ReportedPrefix = DecimalValue(digits)

\* "10.0.0.1/+32" has been parsed as the IPv4CIDR 10.0.0.1/32.
PrefixFieldGrammarWitness ==
    /\ out.op = "from_str"
    /\ out.family = "V4"
    /\ out.input = IPv4AddressFmt(V4Addrs[1]) \o <<"/", "+">> \o Dec(V4Width)
    /\ out.result = Ok(NewUnchecked(V4Addrs[1], V4Width))

\* C10: IPCIDR's parser returns Ok(V4(c)) exactly when IPv4CIDR's returns
\* Ok(c), and Ok(V6(c)) exactly when IPv6CIDR's returns Ok(c); the prefix
\* bound is that of the family of the address, so an IPv4 address with a
\* prefix in 33..128 gives InvalidPrefix with that prefix and an IPv6
\* address with the same prefix is accepted.
ParsersAgree ==
    out.op = "IPCIDR::from_str" =>
        /\ \A f \in Families :
              LET r == FromStr(f, out.input) IN
              /\ r.ok <=> (out.result.ok /\ out.result.value.tag = f)
              /\ r.ok => out.result = Ok(Obj(f, r.value))
        /\ \A p \in {q \in Prefixes : V4Width < q /\ q <= V6Width} :
              /\ \A a \in Addrs("V4") :
                    out.input = IPv4AddressFmt(a) \o <<"/">> \o Dec(p)
                      => out.result = InvalidPrefix(InvalidPrefixError(p))
              /\ \A a \in Addrs("V6") :
                    out.input = IPv6AddressFmt(a) \o <<"/">> \o Dec(p)
                      => out.result = Ok(V6(NewUnchecked(a, p)))

\* IPCIDR's parser has refused "10.0.0.1/33" with InvalidPrefix(33).
ParsersAgreeWitness ==
    /\ out.op = "IPCIDR::from_str"
    /\ out.input = IPv4AddressFmt(V4Addrs[1]) \o <<"/">> \o Dec(V4Width + 1)
    /\ out.result = InvalidPrefix(InvalidPrefixError(V4Width + 1))

\* The order of two addresses of one family: that of the first octet or
\* segment in which they differ.
AddressOrder(a, b) ==
    IF a = b THEN "Equal"
    ELSE IF \E i \in 1..Len(a) :
               a[i] < b[i] /\ \A j \in 1..(i - 1) : a[j] = b[j]
         THEN "Less"
         ELSE "Greater"

SameValue(a, b) == Address(a) = Address(b) /\ Prefix(a) = Prefix(b)

Reverse(o) == IF o = "Less" THEN "Greater" ELSE IF o = "Greater" THEN "Less" ELSE o

\* C7: two CIDRs of one family are equal iff address and prefix are both
\* equal, while partial_cmp is the order of the two addresses alone; with
\* the same address and different prefixes they are unequal and compare
\* Equal.
EqOrderAsymmetry ==
    /\ out.op = "eq" => out.result = SameValue(cidr.cidr, other.cidr)
    /\ out.op = "partial_cmp"
          => out.result = AddressOrder(Address(cidr.cidr), Address(other.cidr))
    /\ (/\ out.op \in {"eq", "partial_cmp"}
        /\ Address(cidr.cidr) = Address(other.cidr)
        /\ Prefix(cidr.cidr) # Prefix(other.cidr))
          => IF out.op = "eq" THEN out.result = FALSE ELSE out.result = "Equal"

\* 10.0.0.1/32 and 10.0.0.1/0 have compared Equal.
EqOrderAsymmetryWitness ==
    /\ out.op = "partial_cmp"
    /\ cidr = V4(NewUnchecked(V4Addrs[1], V4Width))
    /\ other = V4(NewUnchecked(V4Addrs[1], 0))
    /\ out.result = "Equal"

\* C8: an IPv4 CIDR orders before an IPv6 CIDR whatever the addresses and
\* prefixes, between two IPCIDRs and between an IPCIDR and a bare family
\* CIDR in either operand order; IPCIDR.partial_cmp(family CIDR) is the
\* reverse of the family CIDR's partial_cmp with that IPCIDR; with one
\* family on both sides the result is the order of the addresses.
FamilyFirst ==
    /\ (out.op = "IPCIDR.partial_cmp(IPCIDR)" /\ cidr.tag = "V4" /\ other.tag = "V6")
          => out.result = "Less"
    /\ (out.op = "IPCIDR.partial_cmp(IPv6CIDR)" /\ cidr.tag = "V4")
          => out.result = "Less"
    /\ (out.op = "IPv4CIDR.partial_cmp(IPCIDR)" /\ other.tag = "V6")
          => out.result = "Less"
    /\ (out.op = "IPCIDR.partial_cmp(IPv4CIDR)" /\ cidr.tag = "V6")
          => out.result = "Greater"
    /\ (out.op = "IPv6CIDR.partial_cmp(IPCIDR)" /\ other.tag = "V4")
          => out.result = "Greater"
    /\ out.op = "IPCIDR.partial_cmp(IPv4CIDR)"
          => out.result = Reverse(V4PartialCmpIPCIDR(other.cidr, cidr))
    /\ out.op = "IPCIDR.partial_cmp(IPv6CIDR)"
          => out.result = Reverse(V6PartialCmpIPCIDR(other.cidr, cidr))
    /\ out.op = "IPv4CIDR.partial_cmp(IPCIDR)"
          => out.result = Reverse(IPCIDRPartialCmpV4(other, cidr.cidr))
    /\ out.op = "IPv6CIDR.partial_cmp(IPCIDR)"
          => out.result = Reverse(IPCIDRPartialCmpV6(other, cidr.cidr))
    /\ (/\ out.op \in {"IPCIDR.partial_cmp(IPCIDR)", "IPCIDR.partial_cmp(IPv4CIDR)",
                       "IPCIDR.partial_cmp(IPv6CIDR)", "IPv4CIDR.partial_cmp(IPCIDR)",
                       "IPv6CIDR.partial_cmp(IPCIDR)"}
        /\ cidr.tag = other.tag)
          => out.result = AddressOrder(Address(cidr.cidr), Address(other.cidr))

\* The IPv6CIDR ::1/0 has compared Greater than the IPCIDR holding
\* 192.168.1.0/32.
FamilyFirstWitness ==
    /\ out.op = "IPv6CIDR.partial_cmp(IPCIDR)"
    /\ cidr = V6(NewUnchecked(V6Addrs[1], 0))
    /\ other = V4(NewUnchecked(V4Addrs[2], V4Width))
    /\ out.result = "Greater"

\* C9: an IPCIDR holding one family never equals a CIDR of the other
\* family, in either operand order; with the same family, IPCIDR and family
\* CIDR are equal iff address and prefix are; two IPCIDRs are equal iff they
\* hold the same family, address and prefix.
CrossFamilyEq ==
    /\ (\/ out.op \in {"IPCIDR==IPv4CIDR", "IPCIDR==IPv6CIDR"}
        \/ out.op \in {"IPv4CIDR==IPCIDR", "IPv6CIDR==IPCIDR"}
        \/ out.op = "IPCIDR==IPCIDR")
          => out.result = (cidr.tag = other.tag /\ SameValue(cidr.cidr, other.cidr))
    /\ (out.op = "IPCIDR==IPv6CIDR" /\ cidr.tag = "V4") => out.result = FALSE
    /\ (out.op = "IPCIDR==IPv4CIDR" /\ cidr.tag = "V6") => out.result = FALSE
    /\ (out.op = "IPv6CIDR==IPCIDR" /\ other.tag = "V4") => out.result = FALSE
    /\ (out.op = "IPv4CIDR==IPCIDR" /\ other.tag = "V6") => out.result = FALSE

\* The IPv6CIDR ::1/128 has been found unequal to the IPCIDR holding ::1/0.
CrossFamilyEqWitness ==
    /\ out.op = "IPv6CIDR==IPCIDR"
    /\ cidr = V6(NewUnchecked(V6Addrs[1], V6Width))
    /\ other = V6(NewUnchecked(V6Addrs[1], 0))
    /\ out.result = FALSE

\* C11: the total order agrees with the partial order: for two CIDRs of one
\* family a.cmp(b) is the ordering a.partial_cmp(b) gives, and for two
\* IPCIDR values x.cmp(y) is the ordering x.partial_cmp(y) gives; with the
\* same address and different prefixes cmp is Equal, as partial_cmp is.
CmpAgreesWithPartialCmp ==
    /\ out.op = "cmp" => out.result = PartialCmp(cidr.cidr, other.cidr)
    /\ out.op = "IPCIDR.cmp(IPCIDR)" => out.result = IPCIDRPartialCmp(cidr, other)
    /\ (/\ out.op \in {"cmp", "IPCIDR.cmp(IPCIDR)"}
        /\ cidr.tag = other.tag
        /\ Address(cidr.cidr) = Address(other.cidr))
          => out.result = "Equal"

====
